---- MODULE Spec2Model ----
(***************************************************************************)
(* Transaction construction, signing and broadcast pipeline of the         *)
(* Oraichain agent kit (OraichainAgentKit / OraichainAgentKitWithSigner)   *)
(* and of the tools that wrap it, against a Cosmos-SDK chain.              *)
(*                                                                         *)
(* Byte strings (protobuf, base64, JSON) are modelled by the records they  *)
(* encode; a signature is the pair of the signing key and the exact sign   *)
(* bytes it was made over.                                                  *)
(***************************************************************************)
EXTENDS Integers, Sequences, FiniteSets, TLC

\* ------------------------------------------------------------- bounds
\* Number of buildSignDoc calls in flight over a run.
NBuilds == 2
\* Simulation returns a gas value in 1..MaxGas, or the scenario value.
MaxGas == 2
\* Transactions of the same accounts accepted from other clients.
MaxExternal == 1

Builds == 1..NBuilds
\* The gas values simulate can return: small ones and a realistic one.
GasValues == (1..MaxGas) \cup {80000}
Addrs == {"orai1", "orai2"}
ChainId == "Oraichain"

\* Chain-assigned account numbers and the sequences the run starts from.
AccountNumberOf(a) == IF a = "orai1" THEN 11 ELSE 12
InitSequence(a) == IF a = "orai1" THEN 5 ELSE 0
\* The secp256k1 key pair of an address (public key bytes name the key).
PubkeyOf(a) == IF a = "orai1" THEN "pk1" ELSE "pk2"

VARIABLES
  kit,        \* which OraichainAgentKit source variant runs
  chainSeq,   \* chain: account sequence per address
  accepted,   \* chain: number of transactions accepted per address
  external,   \* number of transactions accepted from other clients
  build,      \* buildSignDoc calls: position and locals
  sign,       \* the sign call made on each built document
  bcast,      \* the broadcast call made with each signature
  wire,       \* one signed transaction and the bytes each operation sends
  tamper,     \* one payload handed to signDirect and what came back
  codec,    \* one message given to the registry, its encoding and decoding
  compound, \* one invocation of the auto-compound tool
  hist,     \* the historical-data tool: cache file, clock and invocations
  sse         \* the SSE server: connections, registered sessions, POST answers

\* The variables of the other components, which the pipeline leaves alone.
others == <<tamper, codec, compound, hist, sse>>

\* The variables of the build/sign/broadcast pipeline.
pipeline == <<kit, chainSeq, accepted, external, build, sign, bcast, wire>>

vars == <<kit, chainSeq, accepted, external, build, sign, bcast, wire, others>>

\* ------------------------------------------------- decimal strings
\* number.toString() / Int53.fromString(): decimal digit sequences.
RECURSIVE DecStr(_)
DecStr(n) == IF n < 10 THEN <<n>> ELSE Append(DecStr(n \div 10), n % 10)

RECURSIVE Int53FromString(_)
Int53FromString(s) ==
  IF Len(s) = 1 THEN s[1]
  ELSE Int53FromString(SubSeq(s, 1, Len(s) - 1)) * 10 + s[Len(s)]

\* ------------------------------------------------------------ fee
\* The two variants of the kit: gasMultiplier 1.5 and 1.4, in tenths.
Kits == {"kit15", "kit14"}
gasMultiplier(k) == IF k = "kit15" THEN 15 ELSE 14

\* Number.prototype.toFixed(0) of num/den >= 0: nearest integer, ties up.
ToFixed0(num, den) == (2 * num + den) \div (2 * den)

\* The gas limit handed to calculateFee in the "auto" branch.
AutoGasLimit_divides(k, gasUsed) == ToFixed0(gasUsed * 10, gasMultiplier(k))
AutoGasLimit(k, gasUsed) ==
  IF k = "kit15"
    THEN Int53FromString(DecStr(ToFixed0(gasUsed * gasMultiplier(k), 10)))
    ELSE gasUsed

\* calculateFee(gasLimit, GasPrice "0.001orai"): amount = ceil(price * gas).
calculateFee(gasLimit, priceMilli) ==
  [gas |-> DecStr(gasLimit),
   amount |-> (gasLimit * priceMilli + 999) \div 1000]

\* A caller-supplied fee (StdFee) for the non-auto branch.
FixedFee == calculateFee(200000, 1)

\* ------------------------------------------------------- encodings
\* A message (EncodeObject) of the given type; its signer is the sender.
Msg(typeUrl, sender) == [typeUrl |-> typeUrl, signer |-> sender]

\* The one message the transfer tool builds.
MsgSend(sender) == Msg("/cosmos.bank.v1beta1.MsgSend", sender)

\* The type urls the kit's registry knows, lines 79-82: those of
\* defaultRegistryTypes and wasmTypes (the ones listed stand for all).
RegistryTypes ==
  {"/cosmos.bank.v1beta1.MsgSend",
   "/cosmos.bank.v1beta1.MsgMultiSend",
   "/cosmos.staking.v1beta1.MsgDelegate",
   "/cosmos.staking.v1beta1.MsgUndelegate",
   "/cosmos.staking.v1beta1.MsgBeginRedelegate",
   "/cosmos.distribution.v1beta1.MsgWithdrawDelegatorReward",
   "/cosmos.distribution.v1beta1.MsgWithdrawValidatorCommission",
   "/cosmos.gov.v1beta1.MsgVote",
   "/ibc.applications.transfer.v1.MsgTransfer",
   "/cosmwasm.wasm.v1.MsgExecuteContract"}

\* registry.encode of a TxBody {messages, memo, timeoutHeight}.
TxBodyBytes(messages, memo, timeoutHeight) ==
  [messages |-> messages, memo |-> memo, timeoutHeight |-> timeoutHeight]

\* makeAuthInfoBytes([{pubkey, sequence}], amount, gasLimit, .., signMode).
makeAuthInfoBytes(pubkey, pkType, sequence, amount, gasLimit, signMode) ==
  [pubkey |-> pubkey, pkType |-> pkType, sequence |-> sequence,
   amount |-> amount, gasLimit |-> gasLimit, mode |-> signMode]

\* makeSignDoc(bodyBytes, authInfoBytes, chainId, accountNumber).
makeSignDoc(bodyBytes, authInfoBytes, chainId, accountNumber) ==
  [bodyBytes |-> bodyBytes, authInfoBytes |-> authInfoBytes,
   chainId |-> chainId, accountNumber |-> accountNumber]

\* --------------------------------------------------- chain queries
\* client.getSequence(address).sequence: a live query of the chain.
ReadSequence_cached(a) == InitSequence(a)
ReadSequence_localNonce(a) ==
  chainSeq[a] + Cardinality({b \in Builds :
                   build[b].pc = "done" /\ build[b].sender = a})
ReadSequence(a) == chainSeq[a]

\* client.getSequence(address).accountNumber.
ReadAccountNumber(a) == AccountNumberOf(a)

\* ------------------------------------------------------ buildSignDoc
IdleBuild ==
  [pc |-> "idle", sender |-> "orai1", stdFee |-> "auto", timeoutHeight |-> 0,
   typeUrl |-> "/cosmos.bank.v1beta1.MsgSend",
   accountNumber |-> 0, sequence |-> 0, simSequence |-> 0,
   simOutcome |-> "none", gasUsed |-> 0, readEpoch |-> 0,
   doc |-> <<>>, error |-> "none"]

\* An exception leaves buildSignDoc: the call rejects, nothing is returned.
FailBuild(r, err) == [r EXCEPT !.pc = "failed", !.error = err]

\* Lines 181-203: body, auth info and sign document from the resolved fee.
\* registry.encode throws for a message of an unregistered type.
FinishBuild_dropsTimeout(r, fee) ==
  IF r.typeUrl \notin RegistryTypes THEN FailBuild(r, "Unregistered type url")
  ELSE
  [r EXCEPT
     !.pc = "done",
     !.doc = << makeSignDoc(
                  TxBodyBytes(<<Msg(r.typeUrl, r.sender)>>, "", 0),
                  makeAuthInfoBytes(PubkeyOf(r.sender),
                                    "/cosmos.crypto.secp256k1.PubKey",
                                    r.sequence, fee.amount,
                                    Int53FromString(fee.gas), "direct"),
                  ChainId, r.accountNumber) >>]
FinishBuild(r, fee) ==
  IF r.typeUrl \notin RegistryTypes THEN FailBuild(r, "Unregistered type url")
  ELSE
  [r EXCEPT
     !.pc = "done",
     !.doc = << makeSignDoc(
                  TxBodyBytes(<<Msg(r.typeUrl, r.sender)>>, "", r.timeoutHeight),
                  makeAuthInfoBytes(PubkeyOf(r.sender),
                                    "/cosmos.crypto.secp256k1.PubKey",
                                    r.sequence, fee.amount,
                                    Int53FromString(fee.gas), "direct"),
                  ChainId, r.accountNumber) >>]

\* A call starts: buildSignDoc(senderAddress, publicKey, messages, stdFee,
\* memo, timeoutHeight), with the arguments drawn from the sets given.
CallBuildSignDoc(b, Senders, FeeModes, TimeoutHeights, TypeUrls) ==
  /\ build[b].pc = "idle"
  /\ \A c \in Builds : c < b => build[c].pc # "idle"
  /\ \E sender \in Senders, stdFee \in FeeModes, th \in TimeoutHeights,
        typeUrl \in TypeUrls :
       build' = [build EXCEPT ![b] =
                   [@ EXCEPT !.pc = "getSequence", !.sender = sender,
                             !.stdFee = stdFee, !.timeoutHeight = th,
                             !.typeUrl = typeUrl]]
  /\ UNCHANGED <<others, wire, kit, chainSeq, accepted, external, sign, bcast>>

\* Lines 156-158 (and 177-203 when the fee is given): the account is read.
\* readEpoch records how many transactions of the sender the chain had
\* accepted then.
AfterGetSequence(r) ==
  LET r1 == [r EXCEPT !.sequence = ReadSequence(r.sender),
                      !.accountNumber = ReadAccountNumber(r.sender),
                      !.readEpoch = accepted[r.sender]]
  IN IF r.stdFee = "auto"
       THEN \* simulate, line 300: registry.encodeAsAny of each message
            IF r.typeUrl \notin RegistryTypes
              THEN FailBuild(r1, "Unregistered type url")
              ELSE [r1 EXCEPT !.pc = "simGetSequence"]
       ELSE FinishBuild(r1, FixedFee)

GetSequence(b) ==
  /\ build[b].pc = "getSequence"
  /\ build' = [build EXCEPT ![b] = AfterGetSequence(@)]
  /\ UNCHANGED <<others, wire, kit, chainSeq, accepted, external, sign, bcast>>

\* simulate, lines 300-301: the sequence is read again.
SimulateGetSequence(b) ==
  /\ build[b].pc = "simGetSequence"
  /\ build' = [build EXCEPT ![b] =
                 [@ EXCEPT !.pc = "simulate",
                           !.simSequence = ReadSequence(build[b].sender)]]
  /\ UNCHANGED <<others, wire, kit, chainSeq, accepted, external, sign, bcast>>

\* What queryClient.tx.simulate and (1.4 variant) the chain registry answer.
SimOutcomes(k) ==
  {[ok |-> TRUE, gasUsed |-> g, registry |-> "ok", priceMilli |-> 1] :
     g \in GasValues}
  \cup {[ok |-> FALSE, gasUsed |-> 0, registry |-> "ok", priceMilli |-> 1]}
  \cup (IF k = "kit14"
          THEN {[ok |-> TRUE, gasUsed |-> g, registry |-> "ok",
                 priceMilli |-> 3] : g \in GasValues}
               \cup {[ok |-> TRUE, gasUsed |-> 1, registry |-> x,
                      priceMilli |-> 1] : x \in {"noChain", "noFeeCurrency"}}
          ELSE {})

\* Lines 165-176 / 567-594: the "auto" branch after simulate has answered.
AfterSimulate_defaultGas(k, r, out) ==
  LET r1 == [r EXCEPT !.simOutcome = IF out.ok THEN "gas" ELSE "failed",
                      !.gasUsed = out.gasUsed]
  IN IF ~out.ok THEN FinishBuild(r1, FixedFee)
     ELSE FinishBuild(r1, calculateFee(AutoGasLimit(k, out.gasUsed), 1))
AfterSimulate(k, r, out) ==
  LET r1 == [r EXCEPT !.simOutcome = IF out.ok THEN "gas" ELSE "failed",
                      !.gasUsed = out.gasUsed]
  IN IF ~out.ok THEN FailBuild(r1, "SimulationError")
     ELSE IF out.registry = "noChain"
       THEN FailBuild(r1, "Oraichain chain info not found")
     ELSE IF out.registry = "noFeeCurrency"
       THEN FailBuild(r1, "Oraichain fee currency not found")
     ELSE FinishBuild(r1, calculateFee(AutoGasLimit(k, out.gasUsed),
                                       out.priceMilli))

Simulate(b) ==
  /\ build[b].pc = "simulate"
  /\ \E out \in SimOutcomes(kit) :
       build' = [build EXCEPT ![b] = AfterSimulate(kit, @, out)]
  /\ UNCHANGED <<others, wire, kit, chainSeq, accepted, external, sign, bcast>>

\* A chain query of the call fails (endpoint unreachable): the call rejects.
QueryFails(b) ==
  /\ build[b].pc \in {"getSequence", "simGetSequence"}
  /\ build' = [build EXCEPT ![b] = FailBuild(@, "ConnectionError")]
  /\ UNCHANGED <<others, wire, kit, chainSeq, accepted, external, sign, bcast>>

\* ------------------------------------------------------- sign bytes
\* makeSignBytes(signDoc): the bytes a direct signature is made over.
DirectSignBytes(doc) == [mode |-> "direct", doc |-> <<doc>>, amino |-> <<>>]
\* serializeSignDoc(stdSignDoc): the sorted JSON an amino signature is over.
AminoSignBytes(adoc) == [mode |-> "amino", doc |-> <<>>, amino |-> <<adoc>>]
\* Bytes that are neither: a payload decoded under the wrong shape.
JunkSignBytes == [mode |-> "junk", doc |-> <<>>, amino |-> <<>>]

\* aminoTypes.toAmino / fromAmino for the registered converters.
ToAmino(msg) == [type |-> "cosmos-sdk/MsgSend", signer |-> msg.signer]
FromAmino(amsg) ==
  [typeUrl |-> "/cosmos.bank.v1beta1.MsgSend", signer |-> amsg.signer]

\* The amino StdSignDoc of the same {messages, fee, memo, account} as a
\* direct sign document (numbers are decimal strings in amino JSON).
AminoDocOf(doc) ==
  [chain_id |-> doc.chainId,
   account_number |-> DecStr(doc.accountNumber),
   sequence |-> DecStr(doc.authInfoBytes.sequence),
   fee |-> [gas |-> DecStr(doc.authInfoBytes.gasLimit),
            amount |-> doc.authInfoBytes.amount],
   msgs |-> [i \in DOMAIN doc.bodyBytes.messages |->
               ToAmino(doc.bodyBytes.messages[i])],
   memo |-> doc.bodyBytes.memo,
   timeout_height |-> doc.bodyBytes.timeoutHeight]

\* ------------------------------------------------------------- sign
\* DirectSecp256k1HdWallet.fromMnemonic: one account, the first HD path.
WalletAccounts == <<"orai1">>

IdleSign ==
  [pc |-> "idle", shape |-> "direct", accountIndex |-> 0, direct |-> TRUE,
   signature |-> <<>>, error |-> "none"]

Signed(r, enc, by, over) ==
  [r EXCEPT !.pc = "signed",
            !.signature = <<[enc |-> enc, by |-> by, over |-> over]>>]

SignFailed(r, err) == [r EXCEPT !.pc = "failed", !.error = err]

signDirect_firstAccount(r, doc, decodes) ==
  IF r.shape = "amino" /\ decodes = "throws"
    THEN SignFailed(r, "DecodeError")
  ELSE Signed(r, "raw", PubkeyOf(WalletAccounts[1]),
              IF r.shape = "direct" THEN DirectSignBytes(doc)
              ELSE JunkSignBytes)
\* signDirect(signDocBase64, accountIndex), lines 378-387.  decodes says
\* what SignDoc.decode makes of bytes that are not a SignDoc.
signDirect(r, doc, decodes) ==
  IF r.shape = "amino" /\ decodes = "throws"
    THEN SignFailed(r, "DecodeError")
  ELSE IF r.accountIndex + 1 \notin DOMAIN WalletAccounts
    THEN SignFailed(r, "TypeError")
  ELSE Signed(r, "raw", PubkeyOf(WalletAccounts[r.accountIndex + 1]),
              IF r.shape = "direct" THEN DirectSignBytes(doc)
              ELSE JunkSignBytes)

\* signAmino(signDocBase64, accountIndex), lines 389-402.
signAmino(r, doc) ==
  IF r.shape = "direct"
    THEN SignFailed(r, "SyntaxError")
  ELSE IF r.accountIndex + 1 \notin DOMAIN WalletAccounts
    THEN SignFailed(r, "TypeError")
  ELSE Signed(r, "stdjson", PubkeyOf(WalletAccounts[r.accountIndex + 1]),
              AminoSignBytes(AminoDocOf(doc)))

\* sign(signDocBase64, accountIndex, direct), lines 367-376, on the
\* document build b returned, sent as a direct or as an amino payload.
Sign(b) ==
  /\ build[b].pc = "done"
  /\ sign[b].pc = "idle"
  /\ \E shape \in {"direct", "amino"}, accountIndex \in {0, 1},
        direct \in BOOLEAN, decodes \in {"throws", "junk"} :
       LET r == [sign[b] EXCEPT !.shape = shape,
                                !.accountIndex = accountIndex,
                                !.direct = direct]
           doc == build[b].doc[1]
       IN sign' = [sign EXCEPT ![b] =
                     IF direct THEN signDirect(r, doc, decodes)
                     ELSE signAmino(r, doc)]
  /\ UNCHANGED <<others, wire, kit, chainSeq, accepted, external, build, bcast>>

\* -------------------------------------------------------- broadcast
\* The four broadcast operations of the kit.
Ops == {"raw", "parts", "signDoc", "amino"}

\* The signature bytes a direct-mode operation puts in TxRaw.signatures:
\* fromBase64 of what sign returned.  The amino result is base64 of a JSON
\* StdSignature, which is no secp256k1 signature.
RawSignature(sig) ==
  IF sig.enc = "raw" THEN [by |-> sig.by, over |-> sig.over]
  ELSE [by |-> "none", over |-> JunkSignBytes]

\* TxRaw.fromPartial({bodyBytes, authInfoBytes, signatures}) encoded.
TxRawBytes(bodyBytes, authInfoBytes, signatures) ==
  [bodyBytes |-> bodyBytes, authInfoBytes |-> authInfoBytes,
   signatures |-> signatures]

buildTxRawBuffer_noSignature(k, doc, sig) ==
  <<TxRawBytes(doc.bodyBytes, doc.authInfoBytes, <<>>)>>
\* buildTxRawBuffer, lines 206-214 and 624-639: the 1.4 variant passes the
\* signature through encodeSecp256k1Signature, which throws unless it is
\* 64 bytes long.
buildTxRawBuffer(k, doc, sig) ==
  IF k = "kit14" /\ sig.enc # "raw" THEN <<>>
  ELSE <<TxRawBytes(doc.bodyBytes, doc.authInfoBytes, <<RawSignature(sig)>>)>>

\* broadcastTxSyncFromStdSignDocAndSignature, lines 255-290: body and auth
\* info are derived again from the amino document; the StdSignature is the
\* one signAmino returned, or the caller's wrapping of a direct signature.
AminoTxRaw_directMode(signedDoc, sig, pubkeyType) ==
  TxRawBytes(
    TxBodyBytes([i \in DOMAIN signedDoc.msgs |-> FromAmino(signedDoc.msgs[i])],
                signedDoc.memo, 0),
    makeAuthInfoBytes(sig.by, pubkeyType,
                      Int53FromString(signedDoc.sequence),
                      signedDoc.fee.amount,
                      Int53FromString(signedDoc.fee.gas), "direct"),
    <<[by |-> sig.by, over |-> sig.over]>>)
AminoTxRaw_defaultPubkeyType(signedDoc, sig, pubkeyType) ==
  TxRawBytes(
    TxBodyBytes([i \in DOMAIN signedDoc.msgs |-> FromAmino(signedDoc.msgs[i])],
                signedDoc.memo, 0),
    makeAuthInfoBytes(sig.by, "/cosmos.crypto.secp256k1.PubKey",
                      Int53FromString(signedDoc.sequence),
                      signedDoc.fee.amount,
                      Int53FromString(signedDoc.fee.gas), "amino"),
    <<[by |-> sig.by, over |-> sig.over]>>)
AminoTxRaw(signedDoc, sig, pubkeyType) ==
  TxRawBytes(
    TxBodyBytes([i \in DOMAIN signedDoc.msgs |-> FromAmino(signedDoc.msgs[i])],
                signedDoc.memo, 0),
    makeAuthInfoBytes(sig.by, pubkeyType,
                      Int53FromString(signedDoc.sequence),
                      signedDoc.fee.amount,
                      Int53FromString(signedDoc.fee.gas), "amino"),
    <<[by |-> sig.by, over |-> sig.over]>>)

\* The TxRaw of a sign document and its signature, as a caller assembles
\* it to hand its encoding to the raw operation.
SignedTx(doc, sig) ==
  TxRawBytes(doc.bodyBytes, doc.authInfoBytes, <<RawSignature(sig)>>)

\* broadcastTxSyncFromDirectSignDocAndSignature, lines 236-246: the parts
\* are base64-decoded, the signatures one by one, and put in a TxRaw.
TxRawFromParts_base64Signatures(bodyBytes, authInfoBytes, signatures) ==
  TxRawBytes(bodyBytes, authInfoBytes,
             [i \in DOMAIN signatures |-> [by |-> "none", over |-> JunkSignBytes]])
TxRawFromParts(bodyBytes, authInfoBytes, signatures) ==
  TxRawBytes(bodyBytes, authInfoBytes,
             [i \in DOMAIN signatures |-> RawSignature(signatures[i])])

\* type PubkeyType, lines 55-57.
PubkeyTypes ==
  {"/cosmos.crypto.secp256k1.PubKey", "/ethermint.crypto.v1.ethsecp256k1.PubKey"}

\* The transaction an operation hands to client.broadcastTxSync: a
\* sequence of at most one TxRaw (none when assembling throws).  The raw
\* operation hands on the caller's own encoding of the parts.
AssembleWith(k, op, doc, sig, pubkeyType) ==
  IF op = "signDoc" THEN buildTxRawBuffer(k, doc, sig)
  ELSE IF op = "amino" THEN <<AminoTxRaw(AminoDocOf(doc), sig, pubkeyType)>>
  ELSE IF op = "parts"
    THEN <<TxRawFromParts(doc.bodyBytes, doc.authInfoBytes, <<sig>>)>>
  ELSE <<SignedTx(doc, sig)>>

\* The amino operation's pubkeyType parameter has a default, line 258.
Assemble(k, op, doc, sig) ==
  AssembleWith(k, op, doc, sig, "/cosmos.crypto.secp256k1.PubKey")

\* ------------------------------------------------------------ chain
\* The sign bytes the chain verifies a signature against: chosen by the
\* sign mode of the transaction's auth info.
ChainSignBytes(tx, signer) ==
  IF tx.authInfoBytes.mode = "direct"
    THEN DirectSignBytes(makeSignDoc(tx.bodyBytes, tx.authInfoBytes, ChainId,
                                     AccountNumberOf(signer)))
    ELSE AminoSignBytes(
           [chain_id |-> ChainId,
            account_number |-> DecStr(AccountNumberOf(signer)),
            sequence |-> DecStr(tx.authInfoBytes.sequence),
            fee |-> [gas |-> DecStr(tx.authInfoBytes.gasLimit),
                     amount |-> tx.authInfoBytes.amount],
            msgs |-> [i \in DOMAIN tx.bodyBytes.messages |->
                        ToAmino(tx.bodyBytes.messages[i])],
            memo |-> tx.bodyBytes.memo,
            timeout_height |-> tx.bodyBytes.timeoutHeight])

VerifySignature(tx, signer) ==
  /\ tx.signatures[1].by = tx.authInfoBytes.pubkey
  /\ tx.signatures[1].over = ChainSignBytes(tx, signer)

\* CheckTx of the chain (the ante handler): 0 accepts into the mempool.
ErrUnauthorized == 4
ErrInvalidPubKey == 8
ErrWrongSequence == 32

CheckTx(tx) ==
  LET signer == tx.bodyBytes.messages[1].signer
  IN IF tx.authInfoBytes.pubkey # PubkeyOf(signer) THEN ErrInvalidPubKey
     ELSE IF tx.authInfoBytes.sequence # chainSeq[signer] THEN ErrWrongSequence
     ELSE IF ~VerifySignature(tx, signer) THEN ErrUnauthorized
     ELSE 0

\* ------------------------------------------------ broadcast (calls)
IdleBcast ==
  [pc |-> "idle", tx |-> <<>>, submitted |-> 0,
   chainCode |-> -1, outcome |-> "none", execCode |-> -1, info |-> <<>>]

\* What the transport does with one client.broadcastTxSync request.
NetOutcomes == {"refused", "delivered", "lost"}

\* client.broadcastTxSync(txBytes) as the kit calls it: one request.  The
\* promise resolves with the hash on code 0, rejects with BroadcastTxError
\* on another code, and rejects with the transport's error otherwise.
Submit_resolvesAnyCode(r, net, code) ==
  [r EXCEPT !.pc = "returned",
            !.submitted = @ + 1,
            !.chainCode = IF net = "refused" THEN -1 ELSE code,
            !.outcome = IF net # "delivered" THEN "NetworkError" ELSE "txHash"]
Submit_retries(r, net, code) ==
  [r EXCEPT !.pc = "returned",
            !.submitted = IF net = "delivered" /\ code = 0 THEN @ + 1 ELSE @ + 2,
            !.chainCode = IF net = "refused" THEN -1 ELSE code,
            !.outcome = IF net # "delivered" THEN "NetworkError"
                        ELSE IF code = 0 THEN "txHash"
                        ELSE "BroadcastTxError"]
Submit(r, net, code) ==
  [r EXCEPT !.pc = "returned",
            !.submitted = @ + 1,
            !.chainCode = IF net = "refused" THEN -1 ELSE code,
            !.outcome = IF net # "delivered" THEN "NetworkError"
                        ELSE IF code = 0 THEN "txHash"
                        ELSE "BroadcastTxError"]

\* One of broadcastTxSync, broadcastTxSyncFromDirectSignDocAndSignature,
\* broadcastSignDocBase64, broadcastTxSyncFromStdSignDocAndSignature (lines
\* 216-292), called with the document of build b and its signature.
Broadcast(b, op) ==
  /\ sign[b].pc = "signed"
  /\ bcast[b].pc = "idle"
  /\ LET txs == Assemble(kit, op, build[b].doc[1], sign[b].signature[1])
         r == [bcast[b] EXCEPT !.tx = txs]
     IN IF txs = <<>>
          THEN /\ bcast' = [bcast EXCEPT ![b] =
                              [r EXCEPT !.pc = "returned",
                                        !.outcome = "LocalError"]]
               /\ UNCHANGED <<chainSeq, accepted>>
          ELSE \E net \in NetOutcomes :
                 LET code == CheckTx(txs[1])
                     signer == txs[1].bodyBytes.messages[1].signer
                     taken == net # "refused" /\ code = 0
                 IN /\ bcast' = [bcast EXCEPT ![b] = Submit(r, net, code)]
                    /\ chainSeq' = IF taken
                                     THEN [chainSeq EXCEPT ![signer] = @ + 1]
                                     ELSE chainSeq
                    /\ accepted' = IF taken
                                     THEN [accepted EXCEPT ![signer] = @ + 1]
                                     ELSE accepted
  /\ UNCHANGED <<others, wire, kit, external, build, sign>>

\* ------------------------------------------------------------ chain
\* A transaction accepted into the mempool is executed in a block: code 0,
\* or a failure of its messages (ErrInsufficientFunds).
ErrInsufficientFunds == 5

Execute(b) ==
  /\ bcast[b].chainCode = 0
  /\ bcast[b].execCode = -1
  /\ \E code \in {0, ErrInsufficientFunds} :
       bcast' = [bcast EXCEPT ![b] = [@ EXCEPT !.execCode = code]]
  /\ UNCHANGED <<others, wire, kit, chainSeq, accepted, external, build, sign>>

\* The chain accepts a transaction of address a sent by another client.
ExternalTx(a) ==
  /\ external < MaxExternal
  /\ chainSeq' = [chainSeq EXCEPT ![a] = @ + 1]
  /\ accepted' = [accepted EXCEPT ![a] = @ + 1]
  /\ external' = external + 1
  /\ UNCHANGED <<others, wire, kit, build, sign, bcast>>

\* ------------------------------------- broadcast operations (bytes)
\* TxRaw.encode(txRaw).finish(): the fields in the order of their numbers,
\* one field 3 per signature.
TxRawEncode(tx) ==
  <<[field |-> 1, bytes |-> <<tx.bodyBytes>>],
    [field |-> 2, bytes |-> <<tx.authInfoBytes>>]>>
  \o [i \in DOMAIN tx.signatures |->
        [field |-> 3, bytes |-> <<tx.signatures[i]>>]]

\* Another encoding of the same TxRaw: protobuf fields may come in any
\* order.
TxRawEncodeUnordered(tx) ==
  <<[field |-> 2, bytes |-> <<tx.authInfoBytes>>],
    [field |-> 1, bytes |-> <<tx.bodyBytes>>]>>
  \o [i \in DOMAIN tx.signatures |->
        [field |-> 3, bytes |-> <<tx.signatures[i]>>]]

\* The TxRaw the chain decodes from submitted bytes.
FieldsOf(bytes, f) == SelectSeq(bytes, LAMBDA e : e.field = f)
TxRawDecode(bytes) ==
  LET body == FieldsOf(bytes, 1)
      auth == FieldsOf(bytes, 2)
      sigs == FieldsOf(bytes, 3)
  IN TxRawBytes(body[Len(body)].bytes[1], auth[Len(auth)].bytes[1],
                [i \in DOMAIN sigs |-> sigs[i].bytes[1]])

\* One signed transaction handed to the broadcast operations: the sign
\* document, the signature sign returned for it, the caller's encoding of
\* the whole transaction (for the raw operation) and the pubkey type (for
\* the amino operation); out holds the bytes each operation has given to
\* client.broadcastTxSync, threw the operations that threw before that.
WireCall(doc, sig, signedTx, pubkeyType) ==
  [doc |-> doc, sig |-> sig, signedTx |-> signedTx, pubkeyType |-> pubkeyType,
   out |-> [op \in Ops |-> <<>>], threw |-> {}]

IdleWire == WireCall(<<>>, <<>>, <<>>, "")

\* Sign documents as buildSignDoc returns them for a given fee.
WireDocs ==
  {FinishBuild([IdleBuild EXCEPT !.sender = a, !.timeoutHeight = th,
                                 !.sequence = s,
                                 !.accountNumber = AccountNumberOf(a)],
               FixedFee).doc[1] :
     a \in Addrs, th \in {0, 7}, s \in {0, 5}}

\* What sign returns for a document, under either scheme.
WireSignatures(doc) ==
  {signDirect(IdleSign, doc, "throws").signature[1],
   signAmino([IdleSign EXCEPT !.shape = "amino", !.direct = FALSE],
             doc).signature[1]}

WireCalls ==
  UNION {UNION {{WireCall(doc, sig, enc, t) :
                   enc \in {TxRawEncode(SignedTx(doc, sig)),
                            TxRawEncodeUnordered(SignedTx(doc, sig))},
                   t \in PubkeyTypes} :
                sig \in WireSignatures(doc)} :
         doc \in WireDocs}

\* The bytes operation op gives to client.broadcastTxSync for call w: the
\* raw operation (lines 226-228) sends fromBase64(signedTx) as it is, the
\* others encode the TxRaw they assemble.
HandoffBytes(k, op, w) ==
  IF op = "raw" THEN <<w.signedTx>>
  ELSE LET txs == AssembleWith(k, op, w.doc, w.sig, w.pubkeyType)
       IN IF txs = <<>> THEN <<>> ELSE <<TxRawEncode(txs[1])>>

\* One broadcast operation is called with the signed transaction.
Handoff(op) ==
  /\ wire.out[op] = <<>>
  /\ op \notin wire.threw
  /\ LET bytes == HandoffBytes(kit, op, wire)
     IN wire' = IF bytes = <<>>
                  THEN [wire EXCEPT !.threw = @ \cup {op}]
                  ELSE [wire EXCEPT !.out[op] = bytes]
  /\ UNCHANGED <<others, kit, chainSeq, accepted, external, build, sign, bcast>>

\* ------------------------------------------------- sign (payload bytes)
\* makeSignBytes(signDoc) = SignDoc.encode(..).finish(): the fields in
\* order, each a tag (field number, wire type) and a value; a field with
\* the default value is left out.
SignDocEncode(doc) ==
  <<[field |-> 1, wt |-> 2, val |-> <<doc.bodyBytes>>],
    [field |-> 2, wt |-> 2, val |-> <<doc.authInfoBytes>>],
    [field |-> 3, wt |-> 2, val |-> <<doc.chainId>>]>>
  \o (IF doc.accountNumber = 0 THEN <<>>
      ELSE <<[field |-> 4, wt |-> 0, val |-> <<doc.accountNumber>>]>>)

\* SignDoc.decode(bytes), line 379: createBaseSignDoc(), then for every tag
\* `switch (tag >>> 3)`: the field number alone selects the reader, the
\* wire type is looked at only to skip a field the message does not have;
\* a repeated field keeps its last value.
SignDocDecode(bytes) ==
  LET Last(f, default) ==
        LET fs == SelectSeq(bytes, LAMBDA e : e.field = f)
        IN IF fs = <<>> THEN default ELSE fs[Len(fs)].val[1]
  IN makeSignDoc(Last(1, TxBodyBytes(<<>>, "", 0)),
                 Last(2, makeAuthInfoBytes("", "", 0, 0, 0, "")),
                 Last(3, ""),
                 Last(4, 0))

\* The payloads that differ from bytes in one byte: the wire type or the
\* field number in one tag, or one byte of one value.
OtherValue(e) ==
  IF e.field = 1
    THEN [e.val[1] EXCEPT !.messages =
            [i \in DOMAIN @ |->
               [@[i] EXCEPT !.signer = CHOOSE a \in Addrs : a # @]]]
  ELSE IF e.field = 2 THEN [e.val[1] EXCEPT !.sequence = @ + 1]
  ELSE IF e.field = 3 THEN "Oraichaim"
  ELSE e.val[1] + 1

Tamperings(bytes) ==
  UNION {{[bytes EXCEPT ![i] = [@ EXCEPT !.wt = 2 - @]],
          [bytes EXCEPT ![i] = [@ EXCEPT !.val = <<OtherValue(bytes[i])>>]]}
         \cup (IF bytes[i].field = 4
                THEN {[bytes EXCEPT ![i] = [@ EXCEPT !.field = 5]]}
                ELSE {}) :
         i \in DOMAIN bytes}

\* Signature verification of a message given as bytes: the signature
\* verifies exactly for the bytes it was made over.
VerifyPayload(sig, bytes) ==
  /\ sig.over.mode = "direct"
  /\ SignDocEncode(sig.over.doc[1]) = bytes

IdleTamper == [payload |-> <<>>, out |-> <<>>]

\* Payloads a caller hands to signDirect: a sign document as buildSignDoc
\* encodes it, or one that differs from it in one byte.
TamperPayloads ==
  UNION {{SignDocEncode(doc)} \cup Tamperings(SignDocEncode(doc)) :
         doc \in WireDocs}

\* signDirect(signDocBase64), lines 378-387, on the payload.
SignPayload ==
  /\ tamper.payload # <<>>
  /\ tamper.out = <<>>
  /\ tamper' = [tamper EXCEPT !.out =
                  <<signDirect(IdleSign, SignDocDecode(tamper.payload),
                               "throws")>>]
  /\ UNCHANGED <<pipeline, codec, compound, hist, sse>>

\* ------------------------------------------------------- registry
\* The fields of the message types the tools build and the spec lists, as
\* the generated types registered in lines 79-82 declare them: name and
\* kind, in the order of their field numbers.
Schema(typeUrl) ==
  IF typeUrl = "/cosmos.bank.v1beta1.MsgSend"
    THEN <<[name |-> "fromAddress", kind |-> "string"],
           [name |-> "toAddress", kind |-> "string"],
           [name |-> "amount", kind |-> "coins"]>>
  ELSE IF typeUrl \in {"/cosmos.staking.v1beta1.MsgDelegate",
                       "/cosmos.staking.v1beta1.MsgUndelegate"}
    THEN <<[name |-> "delegatorAddress", kind |-> "string"],
           [name |-> "validatorAddress", kind |-> "string"],
           [name |-> "amount", kind |-> "coin"]>>
  ELSE IF typeUrl = "/cosmos.staking.v1beta1.MsgBeginRedelegate"
    THEN <<[name |-> "delegatorAddress", kind |-> "string"],
           [name |-> "validatorSrcAddress", kind |-> "string"],
           [name |-> "validatorDstAddress", kind |-> "string"],
           [name |-> "amount", kind |-> "coin"]>>
  ELSE IF typeUrl = "/cosmos.distribution.v1beta1.MsgWithdrawDelegatorReward"
    THEN <<[name |-> "delegatorAddress", kind |-> "string"],
           [name |-> "validatorAddress", kind |-> "string"]>>
  ELSE IF typeUrl
            = "/cosmos.distribution.v1beta1.MsgWithdrawValidatorCommission"
    THEN <<[name |-> "validatorAddress", kind |-> "string"]>>
  ELSE <<[name |-> "proposalId", kind |-> "uint64"],
         [name |-> "voter", kind |-> "string"],
         [name |-> "option", kind |-> "enum"]>>

RECURSIVE Flatten(_)
Flatten(seqs) ==
  IF seqs = <<>> THEN <<>> ELSE Head(seqs) \o Flatten(Tail(seqs))

\* Coin.encode: a string field is written unless it is empty.
CoinEncode_amountOnly(coin) ==
  IF coin.amount = "" THEN <<>> ELSE <<[field |-> 2, val |-> coin.amount]>>
CoinEncode(coin) ==
  (IF coin.denom = "" THEN <<>> ELSE <<[field |-> 1, val |-> coin.denom]>>)
  \o (IF coin.amount = "" THEN <<>>
      ELSE <<[field |-> 2, val |-> coin.amount]>>)

\* Coin.decode: the base coin, then the fields found.
CoinDecode(bytes) ==
  LET Last(f) ==
        LET fs == SelectSeq(bytes, LAMBDA e : e.field = f)
        IN IF fs = <<>> THEN "" ELSE fs[Len(fs)].val
  IN [denom |-> Last(1), amount |-> Last(2)]

\* <Type>.encode(value): the fields in order; a string, number or enum
\* with the default value is left out, a coin is written whenever it is
\* there, a repeated field is written once per element.
TypeEncode(typeUrl, value) ==
  LET schema == Schema(typeUrl)
      FieldBytes(i) ==
        LET v == value[schema[i].name]
        IN IF schema[i].kind = "string"
             THEN IF v = "" THEN <<>> ELSE <<[field |-> i, val |-> v]>>
           ELSE IF schema[i].kind \in {"uint64", "enum"}
             THEN IF v = 0 THEN <<>> ELSE <<[field |-> i, val |-> v]>>
           ELSE IF schema[i].kind = "coin"
             THEN <<[field |-> i, val |-> CoinEncode(v)]>>
           ELSE [j \in DOMAIN v |-> [field |-> i, val |-> CoinEncode(v[j])]]
  IN Flatten([i \in DOMAIN schema |-> FieldBytes(i)])

\* <Type>.decode(bytes): the base message with every field at its
\* default, then the fields found.
TypeDecode(typeUrl, bytes) ==
  LET schema == Schema(typeUrl)
      Index(n) == CHOOSE i \in DOMAIN schema : schema[i].name = n
      Found(n) == SelectSeq(bytes, LAMBDA e : e.field = Index(n))
      Field(n) ==
        LET fs == Found(n)
            kind == schema[Index(n)].kind
        IN IF kind = "string"
             THEN IF fs = <<>> THEN "" ELSE fs[Len(fs)].val
           ELSE IF kind \in {"uint64", "enum"}
             THEN IF fs = <<>> THEN 0 ELSE fs[Len(fs)].val
           ELSE IF kind = "coin"
             THEN IF fs = <<>> THEN CoinDecode(<<>>)
                  ELSE CoinDecode(fs[Len(fs)].val)
           ELSE [j \in DOMAIN fs |-> CoinDecode(fs[j].val)]
  IN [n \in {schema[i].name : i \in DOMAIN schema} |-> Field(n)]

\* this.registry.encodeAsAny(m), line 300 (registry.encode of the body,
\* line 192, encodes each message the same way).
encodeAsAny(m) ==
  [typeUrl |-> m.typeUrl, value |-> TypeEncode(m.typeUrl, m.value)]

\* this.registry.decode(any): the message back from its Any.
RegistryDecode(any) ==
  [typeUrl |-> any.typeUrl, value |-> TypeDecode(any.typeUrl, any.value)]

\* Values of the message fields: addresses, coins, proposal ids, options.
MaxCoins == 2
CodecAddresses == {"", "orai1", "oraivaloper1"}
CodecCoins ==
  {[denom |-> "orai", amount |-> "1"], [denom |-> "orai", amount |-> ""]}
CoinLists == UNION {[1..n -> CodecCoins] : n \in 0..MaxCoins}

FieldValues(kind) ==
  IF kind = "string" THEN CodecAddresses
  ELSE IF kind = "uint64" THEN {0, 7}
  ELSE IF kind = "enum" THEN {0, 1}
  ELSE IF kind = "coin" THEN CodecCoins
  ELSE CoinLists

\* The messages of one type: every field present, with a value of its
\* kind.
RECURSIVE FieldTuples(_)
FieldTuples(schema) ==
  IF schema = <<>> THEN {<<>>}
  ELSE {<<v>> \o rest : v \in FieldValues(Head(schema).kind),
                        rest \in FieldTuples(Tail(schema))}

MessagesOf(typeUrl) ==
  LET schema == Schema(typeUrl)
      Index(n) == CHOOSE i \in DOMAIN schema : schema[i].name = n
  IN {[typeUrl |-> typeUrl,
       value |-> [n \in {schema[i].name : i \in DOMAIN schema} |->
                    tup[Index(n)]]] :
        tup \in FieldTuples(schema)}

CodecTypeUrls ==
  {"/cosmos.bank.v1beta1.MsgSend",
   "/cosmos.staking.v1beta1.MsgDelegate",
   "/cosmos.staking.v1beta1.MsgUndelegate",
   "/cosmos.staking.v1beta1.MsgBeginRedelegate",
   "/cosmos.distribution.v1beta1.MsgWithdrawDelegatorReward",
   "/cosmos.distribution.v1beta1.MsgWithdrawValidatorCommission",
   "/cosmos.gov.v1beta1.MsgVote"}

IdleCodec == [m |-> <<>>, any |-> <<>>, back |-> <<>>]

\* The registry encodes the message.
EncodeAsAny ==
  /\ codec.m # <<>>
  /\ codec.any = <<>>
  /\ codec' = [codec EXCEPT !.any = <<encodeAsAny(codec.m[1])>>]
  /\ UNCHANGED <<pipeline, tamper, compound, hist, sse>>

\* The registry decodes what it encoded.
Decode ==
  /\ codec.any # <<>>
  /\ codec.back = <<>>
  /\ codec' = [codec EXCEPT !.back = <<RegistryDecode(codec.any[1])>>]
  /\ UNCHANGED <<pipeline, tamper, compound, hist, sse>>

\* ---------------------------------------------- historical-data tool
\* CoinGeckoHistoricalDataTool.  The repository holds two versions: the
\* one of fetchHistoricalData.ts reads the cache file once per invocation
\* (loadCache) and writes it once at the end (saveCache); the one of
\* part_003 reads the file for every token (getCachedData) and rewrites
\* it after every fetch (setCachedData).
MaxCalls == 2
MaxTicks == 3
cacheValidityPeriod == 3600000

HistTools == {"loadCache", "getCachedData"}
HistTokens == {"bitcoin", "ethereum"}
HistCalls == 1..MaxCalls
TokenLists == UNION {[1..n -> HistTokens] : n \in 1..2}

NoCache == [t \in HistTokens |-> <<>>]

IdleCall ==
  [pc |-> "idle", tokenIds |-> <<>>, i |-> 1, cache |-> NoCache,
   result |-> NoCache, requests |-> <<>>, errors |-> 0]

IdleHist ==
  [tool |-> "loadCache", file |-> NoCache, now |-> 0,
   calls |-> [c \in HistCalls |-> IdleCall]]

\* isCacheValid(cacheData): now - cacheData.timestamp < cacheValidityPeriod.
isCacheValid_never(cacheData, now) == FALSE
isCacheValid(cacheData, now) == now - cacheData.timestamp < cacheValidityPeriod

\* The cache entry the loop looks at for a token: cache[tokenId] of the
\* object loaded at the start, or getCachedData(tokenId) read from the file.
CachedData(h, c, t) ==
  IF h.tool = "loadCache" THEN h.calls[c].cache[t] ELSE h.file[t]

\* The for loop of _call from token i on, as far as it runs without
\* waiting: cached tokens are answered from the cache; at the first token
\* that is not, the loop waits (a delay when result is not empty, else the
\* request itself); after the last token the cache is saved (loadCache
\* version) and the invocation returns.
RECURSIVE RunLoop(_, _)
RunLoop(h, c) ==
  LET r == h.calls[c]
  IN IF r.i > Len(r.tokenIds)
       THEN [h EXCEPT !.calls[c].pc = "done",
                      !.file = IF h.tool = "loadCache" THEN r.cache ELSE @]
     ELSE LET t == r.tokenIds[r.i]
              entry == CachedData(h, c, t)
          IN IF entry # <<>> /\ isCacheValid(entry[1], h.now)
               THEN RunLoop([h EXCEPT !.calls[c].result[t] = <<entry[1].data>>,
                                      !.calls[c].i = r.i + 1], c)
             ELSE IF \E u \in HistTokens : r.result[u] # <<>>
               THEN [h EXCEPT !.calls[c].pc = "delay"]
             ELSE [h EXCEPT !.calls[c].pc = "fetching",
                            !.calls[c].requests = Append(@, t)]

\* _call(input) starts: the token list is parsed, the cache loaded
\* (loadCache version), and the loop runs up to its first wait.
StartCall(c, after) ==
  /\ hist.calls[c].pc = "idle"
  /\ \A b \in HistCalls : b < c => hist.calls[b].pc \in after
  /\ \E tokenIds \in TokenLists :
       hist' = RunLoop([hist EXCEPT !.calls[c].tokenIds = tokenIds,
                                    !.calls[c].cache = hist.file], c)
  /\ UNCHANGED <<pipeline, tamper, codec, compound, sse>>

\* The delay between two requests is over: the request is sent.
AfterDelay(c) ==
  /\ hist.calls[c].pc = "delay"
  /\ hist' = [hist EXCEPT
                !.calls[c].pc = "fetching",
                !.calls[c].requests =
                   Append(@, hist.calls[c].tokenIds[hist.calls[c].i])]
  /\ UNCHANGED <<pipeline, tamper, codec, compound, sse>>

\* fetchTokenData answers or throws; the data is stored in result and in
\* the cache (the loaded object, or the file through setCachedData), an
\* error is noted; the loop goes on.
FetchReturns(c) ==
  /\ hist.calls[c].pc = "fetching"
  /\ \E ok \in BOOLEAN :
       LET r == hist.calls[c]
           t == r.tokenIds[r.i]
           data == [token |-> t, at |-> hist.now]
           entry == <<[timestamp |-> hist.now, data |-> data]>>
           h == IF ~ok
                  THEN [hist EXCEPT !.calls[c].errors = @ + 1,
                                    !.calls[c].i = r.i + 1]
                ELSE IF hist.tool = "loadCache"
                  THEN [hist EXCEPT !.calls[c].result[t] = <<data>>,
                                    !.calls[c].cache[t] = entry,
                                    !.calls[c].i = r.i + 1]
                ELSE [hist EXCEPT !.calls[c].result[t] = <<data>>,
                                  !.file[t] = entry,
                                  !.calls[c].i = r.i + 1]
       IN hist' = RunLoop(h, c)
  /\ UNCHANGED <<pipeline, tamper, codec, compound, sse>>

\* Time passes (half an hour).
Tick ==
  /\ hist.now < MaxTicks * 1800000
  /\ hist' = [hist EXCEPT !.now = @ + 1800000]
  /\ UNCHANGED <<pipeline, tamper, codec, compound, sse>>

\* ------------------------------------------------------- SSE server
\* part_012: app.get("/sse") and app.post("/messages") over the table
\* `sessions`.  A connection is known by the session id of its transport.
NConns == 2
Conns == 1..NConns

\* Per connection: how far the GET /sse handler has come, whether the
\* client's connection is open, whether the handler's close listener is
\* attached, and what the last POST naming it was answered.
IdleConn == [pc |-> "idle", open |-> FALSE, listening |-> FALSE,
             post |-> "none"]

IdleSse == [conn |-> [c \in Conns |-> IdleConn], sessions |-> {},
            bad |-> "none"]

\* GET /sse, lines 82-91: the transport is made and the handler waits for
\* server.connect(transport).
GetSse(c) ==
  /\ sse.conn[c].pc = "idle"
  /\ sse' = [sse EXCEPT !.conn[c].pc = "connecting", !.conn[c].open = TRUE]
  /\ UNCHANGED <<pipeline, tamper, codec, compound, hist>>

\* Lines 92-101: connect has resolved; the session is registered and the
\* close listener attached.  Lines 102-105: connect has thrown, answer 500.
AfterConnect(c) ==
  /\ sse.conn[c].pc = "connecting"
  /\ \E connected \in BOOLEAN :
       sse' = IF connected
                THEN [sse EXCEPT !.conn[c].pc = "registered",
                                 !.conn[c].listening = TRUE,
                                 !.sessions = @ \cup {c}]
                ELSE [sse EXCEPT !.conn[c].pc = "failed",
                                 !.conn[c].open = FALSE]
  /\ UNCHANGED <<pipeline, tamper, codec, compound, hist>>

\* The client's connection closes: the "close" event reaches the listener
\* of lines 98-101 if it is attached by then.
Close(c) ==
  /\ sse.conn[c].open
  /\ sse' = [sse EXCEPT !.conn[c].open = FALSE,
                        !.sessions = IF sse.conn[c].listening
                                       THEN @ \ {c} ELSE @]
  /\ UNCHANGED <<pipeline, tamper, codec, compound, hist>>

\* POST /messages, lines 109-156: 400 without a sessionId, 503 when the
\* table has no transport for it, else the request goes to the
\* transport's handlePostMessage.
PostAnswer(sessions, sessionId) ==
  IF sessionId = <<>> THEN "400"
  ELSE IF sessionId[1] \notin sessions THEN "503"
  ELSE "handed"

PostMessages(sessionId) ==
  /\ sse' = IF sessionId = <<>>
              THEN [sse EXCEPT !.bad = PostAnswer(sse.sessions, sessionId)]
              ELSE [sse EXCEPT !.conn[sessionId[1]].post =
                                  PostAnswer(sse.sessions, sessionId)]
  /\ UNCHANGED <<pipeline, tamper, codec, compound, hist>>

\* ------------------------------------------------------ tool reports
ErrorOf(message, code) == [message |-> message, code |-> code]

NoReport == [status |-> "none", message |-> "", code |-> "none"]

\* The auto-compound tool before its invocation.
IdleCompound ==
  [pc |-> "idle", delegations |-> <<>>, rewards |-> <<>>, queries |-> "ok",
   calls |-> <<>>, report |-> [NoReport EXCEPT !.code = <<"none">>]]

\* ------------------------------------------------------------- spec
Init ==
  /\ kit \in Kits
  /\ chainSeq = [a \in Addrs |-> InitSequence(a)]
  /\ accepted = [a \in Addrs |-> 0]
  /\ external = 0
  /\ build = [b \in Builds |-> IdleBuild]
  /\ sign = [b \in Builds |-> IdleSign]
  /\ bcast = [b \in Builds |-> IdleBcast]
  /\ wire = IdleWire
  /\ codec = IdleCodec
  /\ compound = IdleCompound
  /\ hist = IdleHist
  /\ sse = IdleSse
  /\ tamper = IdleTamper

\* Building sign documents, with either fee mode, while other clients of
\* the same accounts get transactions accepted.
Next ==
  \/ \E b \in Builds : CallBuildSignDoc(b, Addrs, {"auto", "fixed"}, {0},
                                      {"/cosmos.bank.v1beta1.MsgSend"})
  \/ \E b \in Builds : GetSequence(b)
  \/ \E b \in Builds : SimulateGetSequence(b)
  \/ \E b \in Builds : Simulate(b)
  \/ \E b \in Builds : QueryFails(b)
  \/ \E a \in Addrs : ExternalTx(a)

Spec == Init /\ [][Next]_vars

\* The whole pipeline: build (fee given), sign, broadcast.
NextTx ==
  \/ \E b \in Builds : CallBuildSignDoc(b, Addrs, {"fixed"}, {0},
                                      {"/cosmos.bank.v1beta1.MsgSend"})
  \/ \E b \in Builds : GetSequence(b)
  \/ \E b \in Builds : QueryFails(b)
  \/ \E b \in Builds : Sign(b)
  \/ \E b \in Builds, op \in Ops : Broadcast(b, op)

SpecTx == Init /\ [][NextTx]_vars

\* The pipeline of the wallet's own account, up to the execution of the
\* accepted transactions in a block.
NextReport ==
  \/ \E b \in Builds : CallBuildSignDoc(b, {WalletAccounts[1]}, {"fixed"}, {0},
                                      {"/cosmos.bank.v1beta1.MsgSend"})
  \/ \E b \in Builds : GetSequence(b)
  \/ \E b \in Builds : QueryFails(b)
  \/ \E b \in Builds : Sign(b)
  \/ \E b \in Builds, op \in Ops : Broadcast(b, op)
  \/ \E b \in Builds : Execute(b)

SpecReport == Init /\ [][NextReport]_vars

\* Building sign documents with and without timeoutHeight while the chain
\* state stays as it is.
NextTimeout ==
  \/ \E b \in Builds :
        CallBuildSignDoc(b, {WalletAccounts[1]}, {"auto", "fixed"}, {0, 7},
                         {"/cosmos.bank.v1beta1.MsgSend"})
  \/ \E b \in Builds : GetSequence(b)
  \/ \E b \in Builds : SimulateGetSequence(b)
  \/ \E b \in Builds : Simulate(b)
  \/ \E b \in Builds : QueryFails(b)

SpecTimeout == Init /\ [][NextTimeout]_vars

\* Message types a caller may hand to buildSignDoc: registered ones and
\* one no registry knows.
InputTypeUrls ==
  {"/cosmos.bank.v1beta1.MsgSend", "/cosmos.gov.v1beta1.MsgVote",
   "/cosmwasm.wasm.v1.MsgExecuteContract", "/custom.v1.MsgUnknown"}

NextEncode ==
  \/ \E b \in Builds :
        CallBuildSignDoc(b, {WalletAccounts[1]}, {"auto", "fixed"}, {0},
                         InputTypeUrls)
  \/ \E b \in Builds : GetSequence(b)
  \/ \E b \in Builds : SimulateGetSequence(b)
  \/ \E b \in Builds : Simulate(b)
  \/ \E b \in Builds : QueryFails(b)

SpecEncode == Init /\ [][NextEncode]_vars

\* Call c of the pipeline has come to rest in a failure or in a broadcast
\* that returned.
AtRest(c) ==
  build[c].pc = "failed" \/ sign[c].pc = "failed" \/ bcast[c].pc = "returned"

\* A caller that runs the whole pipeline of the wallet's account one call
\* after the other, with either fee mode: every step that can fail
\* (simulation, signing, broadcast) is in it.  The broadcast is the one of
\* a sign document and its signature, which ends in broadcastTxSync.
NextFrame ==
  \/ \E b \in Builds :
        /\ \A c \in Builds : c < b => AtRest(c)
        /\ CallBuildSignDoc(b, {WalletAccounts[1]}, {"auto", "fixed"}, {0},
                            {"/cosmos.bank.v1beta1.MsgSend"})
  \/ \E b \in Builds : GetSequence(b)
  \/ \E b \in Builds : SimulateGetSequence(b)
  \/ \E b \in Builds : Simulate(b)
  \/ \E b \in Builds : QueryFails(b)
  \/ \E b \in Builds : Sign(b)
  \/ \E b \in Builds : Broadcast(b, "signDoc")

SpecFrame == Init /\ [][NextFrame]_vars

\* The pipeline before any call.
IdlePipeline ==
  /\ kit \in Kits
  /\ chainSeq = [a \in Addrs |-> InitSequence(a)]
  /\ accepted = [a \in Addrs |-> 0]
  /\ external = 0
  /\ build = [b \in Builds |-> IdleBuild]
  /\ sign = [b \in Builds |-> IdleSign]
  /\ bcast = [b \in Builds |-> IdleBcast]
  /\ wire = IdleWire

\* signDirect applied to one payload.
InitTamper ==
  /\ IdlePipeline
  /\ codec = IdleCodec
  /\ compound = IdleCompound
  /\ hist = IdleHist
  /\ sse = IdleSse
  /\ tamper \in {[IdleTamper EXCEPT !.payload = bytes] :
                   bytes \in TamperPayloads}

NextTamper == SignPayload

SpecTamper == InitTamper /\ [][NextTamper]_vars

\* One message of a supported type is encoded and decoded.
InitCodec ==
  /\ IdlePipeline
  /\ compound = IdleCompound
  /\ hist = IdleHist
  /\ sse = IdleSse
  /\ tamper = IdleTamper
  /\ codec \in {[IdleCodec EXCEPT !.m = <<m>>] :
                  m \in UNION {MessagesOf(u) : u \in CodecTypeUrls}}

NextCodec == EncodeAsAny \/ Decode

SpecCodec == InitCodec /\ [][NextCodec]_vars

\* A cache file holding entries written half an hour ago for some tokens.
InitHist ==
  /\ IdlePipeline
  /\ sse = IdleSse
  /\ tamper = IdleTamper
  /\ codec = IdleCodec
  /\ compound = IdleCompound
  /\ hist \in {[IdleHist EXCEPT !.tool = tool, !.now = 1800000,
                                 !.file = [t \in HistTokens |->
                                   IF t \in S
                                     THEN <<[timestamp |-> 0,
                                             data |-> [token |-> t, at |-> 0]]>>
                                     ELSE <<>>]] :
                 tool \in HistTools, S \in SUBSET HistTokens}

Returned == {"done"}
Started == {"delay", "fetching", "done"}

\* Invocations of the tool one after the other, while time passes.
NextHist ==
  \/ \E c \in HistCalls : StartCall(c, Returned)
  \/ \E c \in HistCalls : AfterDelay(c)
  \/ \E c \in HistCalls : FetchReturns(c)
  \/ Tick

SpecHist == InitHist /\ [][NextHist]_vars

\* Invocations of the tool that overlap.
NextOverlap ==
  \/ \E c \in HistCalls : StartCall(c, Started)
  \/ \E c \in HistCalls : AfterDelay(c)
  \/ \E c \in HistCalls : FetchReturns(c)
  \/ Tick

SpecOverlap == InitHist /\ [][NextOverlap]_vars

\* The SSE server with its clients.
InitSse ==
  /\ IdlePipeline
  /\ tamper = IdleTamper
  /\ codec = IdleCodec
  /\ compound = IdleCompound
  /\ hist = IdleHist
  /\ sse = IdleSse

NextSse ==
  \/ \E c \in Conns : GetSse(c)
  \/ \E c \in Conns : AfterConnect(c)
  \/ \E c \in Conns : Close(c)
  \/ \E sessionId \in {<<>>} \cup {<<c>> : c \in Conns} :
        PostMessages(sessionId)

SpecSse == InitSse /\ [][NextSse]_vars

\* The four broadcast operations applied to one signed transaction.
InitWire ==
  /\ kit \in Kits
  /\ chainSeq = [a \in Addrs |-> InitSequence(a)]
  /\ accepted = [a \in Addrs |-> 0]
  /\ external = 0
  /\ build = [b \in Builds |-> IdleBuild]
  /\ sign = [b \in Builds |-> IdleSign]
  /\ bcast = [b \in Builds |-> IdleBcast]
  /\ wire \in WireCalls
  /\ codec = IdleCodec
  /\ compound = IdleCompound
  /\ hist = IdleHist
  /\ sse = IdleSse
  /\ tamper = IdleTamper

NextWire == \E op \in Ops : Handoff(op)

SpecWire == InitWire /\ [][NextWire]_vars

\* --------------------------------------------------- tool reports
\* An error as the tools see it: its message and its code property (0: the
\* error has none).
\* The try branch of a tool's _call: status "success".
ToolSuccess(message, code) ==
  [status |-> "success", message |-> message, code |-> code]

ToolCatch_swallows(err) ==
  [status |-> "success", message |-> err.message, code |-> <<"none">>]

\* The catch branch of a tool's _call:
\* {status: "error", message: error.message, code: error.code || "UNKNOWN_ERROR"}.
ToolCatch(err) ==
  [status |-> "error", message |-> err.message,
   code |-> IF err.code = 0 THEN <<"UNKNOWN_ERROR">> ELSE <<"number", err.code>>]

\* OraichainTokenTransferTool._call on buildSignDoc's outcome.
BuildToolReport(b) ==
  IF build[b].pc = "done" THEN ToolSuccess("generated", <<"none">>)
  ELSE IF build[b].pc = "failed" THEN ToolCatch(ErrorOf(build[b].error, 0))
  ELSE [NoReport EXCEPT !.code = <<"none">>]

\* OraichainSignTool._call on sign's outcome.
SignToolReport(b) ==
  IF sign[b].pc = "signed" THEN ToolSuccess("signed", <<"none">>)
  ELSE IF sign[b].pc = "failed" THEN ToolCatch(ErrorOf(sign[b].error, 0))
  ELSE [NoReport EXCEPT !.code = <<"none">>]

\* OraichainBroadcast*Tool._call on a broadcast operation's outcome:
\* BroadcastTxError carries the chain's code, other errors carry none.
BroadcastToolReport(b) ==
  IF bcast[b].pc # "returned" THEN [NoReport EXCEPT !.code = <<"none">>]
  ELSE IF bcast[b].outcome = "txHash"
    THEN ToolSuccess("broadcasted", <<"none">>)
  ELSE IF bcast[b].outcome = "BroadcastTxError"
    THEN ToolCatch(ErrorOf("BroadcastTxError", bcast[b].chainCode))
  ELSE ToolCatch(ErrorOf(bcast[b].outcome, 0))

BuildToolData_signs(b) ==
  IF build[b].pc # "done" THEN <<>>
  ELSE <<[signDoc |-> SignDocEncode(build[b].doc[1]),
          signature |-> signDirect(IdleSign, build[b].doc[1],
                                   "throws").signature,
          txHash |-> <<>>]>>
\* The data of a building tool's success report: {signDoc: base64 of
\* makeSignBytes(signDoc)} and nothing else (no signature, no hash).
BuildToolData(b) ==
  IF build[b].pc # "done" THEN <<>>
  ELSE <<[signDoc |-> SignDocEncode(build[b].doc[1]),
          signature |-> <<>>, txHash |-> <<>>]>>

TxHashInfoReport_emptySuccess(b) ==
  IF bcast[b].outcome # "txHash" THEN [NoReport EXCEPT !.code = <<"none">>]
  ELSE IF bcast[b].execCode = -1 THEN ToolSuccess("Transaction info", <<"none">>)
  ELSE ToolSuccess("Transaction info", <<"number", bcast[b].execCode>>)
\* OraichainTxHashInfoTool._call with the hash the broadcast returned:
\* tx.getTx throws until the transaction is indexed, then answers with the
\* response of its execution.
TxHashInfoReport(b) ==
  IF bcast[b].outcome # "txHash" THEN [NoReport EXCEPT !.code = <<"none">>]
  ELSE IF bcast[b].execCode = -1 THEN ToolCatch(ErrorOf("tx not found", 0))
  ELSE ToolSuccess("Transaction info", <<"number", bcast[b].execCode>>)

\* Everything the caller of one pipeline run has been told.
Report(b) ==
  <<BuildToolReport(b), SignToolReport(b), BroadcastToolReport(b),
    TxHashInfoReport(b)>>

\* What has happened to the transaction of run b.
Truth(b) ==
  IF bcast[b].chainCode = -1 THEN "nothing sent"
  ELSE IF bcast[b].chainCode # 0 THEN "rejected by mempool"
  ELSE IF bcast[b].execCode = -1 THEN "accepted"
  ELSE IF bcast[b].execCode = 0 THEN "executed"
  ELSE "failed on-chain"

\* The caller asks OraichainTxHashInfoTool about the hash broadcast b
\* returned, and keeps the answer.
TxHashInfo(b) ==
  /\ bcast[b].outcome = "txHash"
  /\ bcast[b].info = <<>>
  /\ bcast' = [bcast EXCEPT ![b] = [@ EXCEPT !.info = <<TxHashInfoReport(b)>>]]
  /\ UNCHANGED <<others, wire, kit, chainSeq, accepted, external, build, sign>>

\* The pipeline of the wallet's own account with status queries.
NextQuery ==
  \/ \E b \in Builds : CallBuildSignDoc(b, {WalletAccounts[1]}, {"fixed"}, {0},
                                      {"/cosmos.bank.v1beta1.MsgSend"})
  \/ \E b \in Builds : GetSequence(b)
  \/ \E b \in Builds : QueryFails(b)
  \/ \E b \in Builds : Sign(b)
  \/ \E b \in Builds, op \in Ops : Broadcast(b, op)
  \/ \E b \in Builds : Execute(b)
  \/ \E b \in Builds : TxHashInfo(b)

SpecQuery == Init /\ [][NextQuery]_vars

\* ------------------------------------------------- auto-compound tool
\* AutoCompoundTool._call, claimCommissionTool.ts lines 221-314.  A reward
\* amount is the chain's 18-decimal string; the model counts it in units
\* of 10^17, so that amount \div 10 is
\* Math.floor(parseFloat(amount) / 10 ** decimals).
Validators == {"oraivaloper1", "oraivaloper2"}

WithdrawMsg(delegator, validator) ==
  [typeUrl |-> "/cosmos.distribution.v1beta1.MsgWithdrawDelegatorReward",
   delegatorAddress |-> delegator, validatorAddress |-> validator,
   amount |-> <<>>]

DelegateMsg(delegator, validator, coin) ==
  [typeUrl |-> "/cosmos.staking.v1beta1.MsgDelegate",
   delegatorAddress |-> delegator, validatorAddress |-> validator,
   amount |-> <<coin>>]

\* Lines 236-244: one claim message per delegation.
claimRewardMessages(signer, listOfDelegations) ==
  [i \in DOMAIN listOfDelegations |-> WithdrawMsg(signer, listOfDelegations[i])]

\* Lines 253-281: reward.reward[0] is read of every entry (a TypeError when
\* the entry has no coin); the entries whose amount after the fee reserve
\* is below 1 are filtered out.
ReadsUndefined(rewards) == \E i \in DOMAIN rewards : rewards[i].reward = <<>>

AmountAfterFees(reward) ==
  [num |-> (reward.reward[1].amount \div 10) * 99, den |-> 100]

listOfRewards(rewards) ==
  SelectSeq(rewards,
            LAMBDA r : AmountAfterFees(r).num >= AmountAfterFees(r).den)

\* Lines 283-292: one stake message per remaining reward, of the amount
\* amountAfterFees.toFixed(0).
stakeRewardMessages(signer, rewards) ==
  LET rs == listOfRewards(rewards)
  IN [i \in DOMAIN rs |->
        DelegateMsg(signer, rs[i].validatorAddress,
                    [denom |-> rs[i].reward[1].denom,
                     amount |-> DecStr(ToFixed0(AmountAfterFees(rs[i]).num,
                                                AmountAfterFees(rs[i]).den))])]

\* The whole _call: the queries, the messages, one buildSignDoc call
\* ("auto" fee), and the report; any exception goes to the catch branch.
AutoCompound ==
  /\ compound.pc = "idle"
  /\ \E queries \in {"ok", "delegationsFail", "rewardsFail"},
        built \in BOOLEAN :
       LET signer == WalletAccounts[1]
           messages ==
             claimRewardMessages(signer, compound.delegations)
             \o stakeRewardMessages(signer, compound.rewards)
           r == [compound EXCEPT !.pc = "returned", !.queries = queries]
       IN compound' =
            IF queries # "ok"
              THEN [r EXCEPT !.report = ToolCatch(ErrorOf("ConnectionError", 0))]
            ELSE IF ReadsUndefined(compound.rewards)
              THEN [r EXCEPT !.report = ToolCatch(ErrorOf("TypeError", 0))]
            ELSE IF ~built
              THEN [r EXCEPT !.calls = <<messages>>,
                             !.report = ToolCatch(ErrorOf("SimulationError", 0))]
            ELSE [r EXCEPT !.calls = <<messages>>,
                           !.report = ToolSuccess("generated", <<"none">>)]
  /\ UNCHANGED <<pipeline, tamper, codec, hist, sse>>

\* What the chain answers to the two queries: the validators the signer
\* delegates to, and for each of them the rewards accrued (a list of
\* coins, empty when nothing has accrued).
RewardAmounts == {5, 10, 19, 20, 1500}

RECURSIVE Orderings(_)
Orderings(S) ==
  IF S = {} THEN {<<>>}
  ELSE UNION {{<<v>> \o rest : rest \in Orderings(S \ {v})} : v \in S}

RewardsFor(listOfDelegations) ==
  {[i \in DOMAIN listOfDelegations |->
      [validatorAddress |-> listOfDelegations[i], reward |-> coins[i]]] :
     coins \in [DOMAIN listOfDelegations ->
                 {<<>>} \cup {<<[denom |-> "orai", amount |-> a]>> :
                                a \in RewardAmounts}]}

\* One invocation of the auto-compound tool against a chain state.
InitCompound ==
  /\ IdlePipeline
  /\ hist = IdleHist
  /\ sse = IdleSse
  /\ tamper = IdleTamper
  /\ codec = IdleCodec
  /\ compound \in
       UNION {{[IdleCompound EXCEPT !.delegations = ds, !.rewards = rs] :
                 rs \in RewardsFor(ds)} :
              ds \in UNION {Orderings(S) : S \in SUBSET Validators}}

NextCompound == AutoCompound

SpecCompound == InitCompound /\ [][NextCompound]_vars

\* ============================================================ claims
Ceil(num, den) == (num + den - 1) \div den

AutoDone(b) == build[b].pc = "done" /\ build[b].stdFee = "auto"
DocOf(b) == build[b].doc[1]
GasLimitOf(b) == DocOf(b).authInfoBytes.gasLimit

\* C1: in auto-fee mode the gas limit embedded in the sign document
\* returned by buildSignDoc is at least the (positive) gas value the
\* simulation returned.
C1_GasLimitCoversSimulatedGas ==
  \A b \in Builds :
    AutoDone(b) /\ build[b].gasUsed > 0 => GasLimitOf(b) >= build[b].gasUsed

C1_Witness ==
  \E b \in Builds :
    /\ AutoDone(b)
    /\ build[b].gasUsed = 80000
    /\ GasLimitOf(b) > 80000

\* C2: in auto-fee mode the gas limit of the built sign document equals
\* ceil(gasUsed * multiplier) for the kit's configured gas multiplier; in
\* particular gasUsed 80000 with multiplier 1.4 gives 112000.
C2_GasLimitIsCeilOfMultipliedGas ==
  \A b \in Builds :
    AutoDone(b) =>
      /\ GasLimitOf(b) = Ceil(build[b].gasUsed * gasMultiplier(kit), 10)
      /\ build[b].gasUsed = 80000 /\ gasMultiplier(kit) = 14
           => GasLimitOf(b) = 112000

\* C3: when gas simulation fails during an auto-fee buildSignDoc, the call
\* fails with that error and returns no sign document (no zero or default
\* gas limit or fee is substituted).
C3_SimulationFailurePropagates ==
  \A b \in Builds :
    build[b].simOutcome = "failed" =>
      /\ build[b].pc = "failed"
      /\ build[b].doc = <<>>
      /\ build[b].error = "SimulationError"

C3_Witness ==
  \E b \in Builds :
    /\ build[b].simOutcome = "failed"
    /\ build[b].pc = "failed"
    /\ build[b].stdFee = "auto"

\* Run b's transaction reached the chain and carries a signature the chain
\* verifies for the sender's key.
Delivered(b) == bcast[b].chainCode # -1
TxOf(b) == bcast[b].tx[1]
ValidlySigned(b) ==
  /\ bcast[b].tx # <<>>
  /\ TxOf(b).authInfoBytes.pubkey = PubkeyOf(build[b].sender)
  /\ VerifySignature(TxOf(b), build[b].sender)

\* C4: two buildSignDoc calls for the same sender that read the account
\* with no transaction of the sender accepted in between (nothing
\* serializes them) lead to transactions that cannot both succeed: once
\* both are validly signed and delivered, at most one is accepted, and
\* when one is accepted the other is rejected with the sequence-mismatch
\* code, which its broadcast reports as a BroadcastTxError.
C4_SameSequenceNotBothAccepted ==
  \A b1, b2 \in Builds :
    ( /\ b1 # b2
      /\ build[b1].pc = "done" /\ build[b2].pc = "done"
      /\ build[b1].sender = build[b2].sender
      /\ build[b1].readEpoch = build[b2].readEpoch
      /\ Delivered(b1) /\ Delivered(b2)
      /\ ValidlySigned(b1) /\ ValidlySigned(b2) )
    => /\ ~(bcast[b1].chainCode = 0 /\ bcast[b2].chainCode = 0)
       /\ bcast[b1].chainCode = 0 =>
            /\ bcast[b2].chainCode = ErrWrongSequence
            /\ bcast[b2].outcome \in {"BroadcastTxError", "NetworkError"}

C4_Witness ==
  \E b1, b2 \in Builds :
    /\ b1 # b2
    /\ build[b1].pc = "done" /\ build[b2].pc = "done"
    /\ build[b1].sender = build[b2].sender
    /\ build[b1].readEpoch = build[b2].readEpoch
    /\ DocOf(b1).authInfoBytes.sequence = DocOf(b2).authInfoBytes.sequence
    /\ ValidlySigned(b1) /\ ValidlySigned(b2)
    /\ bcast[b1].chainCode = 0 /\ bcast[b1].outcome = "txHash"
    /\ bcast[b2].chainCode = ErrWrongSequence
    /\ bcast[b2].outcome = "BroadcastTxError"

\* C5: every buildSignDoc call embeds the sequence and account number the
\* chain holds when the call reads the account: the sequence the run
\* started from plus the transactions of the sender accepted until then,
\* never a value remembered from earlier.
C5_SequenceReadFromChainInCall ==
  \A b \in Builds :
    build[b].pc = "done" =>
      /\ DocOf(b).authInfoBytes.sequence
           = InitSequence(build[b].sender) + build[b].readEpoch
      /\ DocOf(b).accountNumber = AccountNumberOf(build[b].sender)

C5_Witness ==
  \E b \in Builds :
    /\ build[b].pc = "done"
    /\ build[b].readEpoch > 0
    /\ DocOf(b).authInfoBytes.sequence = InitSequence(build[b].sender) + 1

\* C6: two buildSignDoc calls for the same sender with no transaction of
\* the sender accepted between them yield sign documents with the same
\* sequence and the same accountNumber.
C6_SameChainStateSameSequence ==
  \A b1, b2 \in Builds :
    ( /\ build[b1].pc = "done" /\ build[b2].pc = "done"
      /\ build[b1].sender = build[b2].sender
      /\ build[b1].readEpoch = build[b2].readEpoch )
    => /\ DocOf(b1).authInfoBytes.sequence = DocOf(b2).authInfoBytes.sequence
       /\ DocOf(b1).accountNumber = DocOf(b2).accountNumber

C6_Witness ==
  \E b1, b2 \in Builds :
    /\ b1 # b2
    /\ build[b1].pc = "done" /\ build[b2].pc = "done"
    /\ build[b1].sender = build[b2].sender
    /\ build[b1].readEpoch = build[b2].readEpoch
    /\ external > 0

RECURSIVE SumOver(_, _)
SumOver(f, S) ==
  IF S = {} THEN 0
  ELSE LET x == CHOOSE y \in S : TRUE IN f[x] + SumOver(f, S \ {x})

\* C7: each invocation of a broadcast operation submits its transaction at
\* most once (exactly once unless assembling it throws), whether the
\* submission is accepted, rejected or ends with a transport error; the
\* chain accepts no more transactions than invocations had accepted.
C7_AtMostOneSubmission ==
  /\ \A b \in Builds :
       /\ bcast[b].submitted <= 1
       /\ bcast[b].pc = "returned" =>
            bcast[b].submitted = IF bcast[b].outcome = "LocalError" THEN 0 ELSE 1
  /\ SumOver(accepted, Addrs)
       = Cardinality({b \in Builds : bcast[b].chainCode = 0}) + external

C7_Witness ==
  \E b1, b2 \in Builds :
    /\ bcast[b1].outcome = "NetworkError" /\ bcast[b1].chainCode = 0
    /\ bcast[b1].submitted = 1
    /\ bcast[b2].outcome = "BroadcastTxError" /\ bcast[b2].submitted = 1

\* C8: the reports always tell apart the states of a run's
\* transaction (nothing sent, sent and rejected by the mempool, accepted,
\* failed on-chain, executed): two runs told the same are in the same state.
C8_ReportsDistinguishStates ==
  \A b1, b2 \in Builds : Report(b1) = Report(b2) => Truth(b1) = Truth(b2)

\* C9: sign produces no signature for a payload whose declared account
\* (public key, account number) is not that of the key the account index
\* selects.
C9_SignRejectsForeignPayload ==
  \A b \in Builds :
    sign[b].pc = "signed" =>
      /\ DocOf(b).authInfoBytes.pubkey = sign[b].signature[1].by
      /\ DocOf(b).accountNumber
           = AccountNumberOf(WalletAccounts[sign[b].accountIndex + 1])

SignedOver(b, mode) ==
  /\ sign[b].pc = "signed"
  /\ sign[b].signature[1].by = PubkeyOf(build[b].sender)
  /\ sign[b].signature[1].over.mode = mode

Sent(op) == wire.out[op] # <<>>
SentTx(op) == TxRawDecode(wire.out[op][1])

\* C11: broadcasting from the decomposed parts {bodyBytes, authInfoBytes,
\* signatures: [sig]} and broadcasting the single raw-bytes transaction
\* that is the encoding of the same parts hand identical bytes to the
\* chain client.
C11_PartsAndRawSubmitSameBytes ==
  ( /\ Sent("raw") /\ Sent("parts")
    /\ wire.signedTx = TxRawEncode(SignedTx(wire.doc, wire.sig)) )
  => wire.out["raw"] = wire.out["parts"]

C11_Witness ==
  /\ Sent("raw") /\ Sent("parts")
  /\ wire.signedTx = TxRawEncode(SignedTx(wire.doc, wire.sig))
  /\ wire.out["raw"] = wire.out["parts"]
  /\ Len(wire.out["parts"][1]) = 3

\* C12: broadcasting from a direct sign document plus a signature submits
\* a transaction whose body bytes and auth-info bytes are those of the
\* sign document and whose signature list is exactly the one supplied
\* signature.
C12_SignDocPathKeepsDocumentAndSignature ==
  Sent("signDoc") =>
    /\ SentTx("signDoc").bodyBytes = wire.doc.bodyBytes
    /\ SentTx("signDoc").authInfoBytes = wire.doc.authInfoBytes
    /\ SentTx("signDoc").signatures = <<RawSignature(wire.sig)>>

C12_Witness ==
  /\ Sent("signDoc")
  /\ kit = "kit14"
  /\ wire.doc.bodyBytes.timeoutHeight = 7
  /\ Len(SentTx("signDoc").signatures) = 1
  /\ SentTx("signDoc").signatures[1].by = wire.sig.by

\* C13: the amino broadcast path derives the auth info of the submitted
\* transaction from the amino document and the signature: sequence, gas
\* limit and fee amount are the document's, the signer public key is the
\* signature's with the supplied pubkey type, and the sign mode is legacy
\* amino JSON.
C13_AminoAuthInfoFromDocument ==
  Sent("amino") =>
    LET auth == SentTx("amino").authInfoBytes
        adoc == AminoDocOf(wire.doc)
    IN /\ auth.sequence = Int53FromString(adoc.sequence)
       /\ auth.gasLimit = Int53FromString(adoc.fee.gas)
       /\ auth.amount = adoc.fee.amount
       /\ auth.pubkey = wire.sig.by
       /\ auth.pkType = wire.pubkeyType
       /\ auth.mode = "amino"

C13_Witness ==
  /\ Sent("amino")
  /\ wire.sig.enc = "stdjson"
  /\ wire.pubkeyType = "/ethermint.crypto.v1.ethsecp256k1.PubKey"
  /\ SentTx("amino").authInfoBytes.pkType = wire.pubkeyType
  /\ SentTx("amino").authInfoBytes.sequence = 5
  /\ SentTx("amino").authInfoBytes.gasLimit = 200000

\* The signature was made under the scheme of operation op.
SchemeOf(op) == IF op = "amino" THEN "stdjson" ELSE "raw"

\* C14: for the direct and for the amino path, the submitted transaction
\* carries exactly the messages, memo, fee and timeout height of the
\* payload that was signed.
C14_SubmittedCarriesSignedPayload ==
  \A op \in Ops :
    Sent(op) /\ wire.sig.enc = SchemeOf(op) =>
      /\ SentTx(op).bodyBytes.messages = wire.doc.bodyBytes.messages
      /\ SentTx(op).bodyBytes.memo = wire.doc.bodyBytes.memo
      /\ SentTx(op).bodyBytes.timeoutHeight = wire.doc.bodyBytes.timeoutHeight
      /\ SentTx(op).authInfoBytes.amount = wire.doc.authInfoBytes.amount
      /\ SentTx(op).authInfoBytes.gasLimit = wire.doc.authInfoBytes.gasLimit

\* The sequence of the transaction run b assembled, and its signer.
TxSequence(b) == TxOf(b).authInfoBytes.sequence
TxSigner(b) == TxOf(b).bodyBytes.messages[1].signer

\* C15: a broadcast of a transaction whose sequence the chain has already
\* consumed for the account, once answered, is answered with a
\* BroadcastTxError carrying a non-zero code, which the tool reports as an
\* error with that code; the chain's account state is left as it was and
\* the transaction is never executed (no funds move).
C15_ConsumedSequenceIsRejected ==
  /\ [](\A b \in Builds :
          bcast[b].chainCode \notin {0, -1} => bcast[b].execCode = -1)
  /\ [][\A b \in Builds :
          ( /\ bcast[b].pc = "idle" /\ bcast'[b].pc = "returned"
            /\ bcast'[b].tx # <<>>
            /\ bcast'[b].outcome # "NetworkError"
            /\ bcast'[b].tx[1].authInfoBytes.sequence
                 < chainSeq[bcast'[b].tx[1].bodyBytes.messages[1].signer] )
          => /\ bcast'[b].outcome = "BroadcastTxError"
             /\ bcast'[b].chainCode > 0
             /\ BroadcastToolReport(b)' =
                  [status |-> "error", message |-> "BroadcastTxError",
                   code |-> <<"number", bcast'[b].chainCode>>]
             /\ chainSeq' = chainSeq
             /\ accepted' = accepted]_vars

C15_Witness ==
  \E b \in Builds :
    /\ bcast[b].outcome = "BroadcastTxError"
    /\ bcast[b].chainCode = ErrWrongSequence
    /\ TxSequence(b) < chainSeq[TxSigner(b)]
    /\ accepted[TxSigner(b)] > 0
    /\ bcast[b].execCode = -1

ShapeMismatch(b) ==
  \/ sign[b].direct /\ sign[b].shape = "amino"
  \/ ~sign[b].direct /\ sign[b].shape = "direct"

C18_SchemeMismatchFails ==
  \A b \in Builds :
    sign[b].pc # "idle" /\ ShapeMismatch(b) =>
      /\ sign[b].pc = "failed"
      /\ sign[b].signature = <<>>

\* C19: the body bytes of the sign document embed the timeoutHeight given
\* to buildSignDoc, and two calls that differ in timeoutHeight only, under
\* the same chain state (same account data, same simulated gas, same
\* resulting fee amount), give identical auth-info bytes.
C19_TimeoutInBodyNotInAuthInfo ==
  /\ \A b \in Builds :
       build[b].pc = "done" =>
         DocOf(b).bodyBytes.timeoutHeight = build[b].timeoutHeight
  /\ \A b1, b2 \in Builds :
       ( /\ build[b1].pc = "done" /\ build[b2].pc = "done"
         /\ build[b1].sender = build[b2].sender
         /\ build[b1].stdFee = build[b2].stdFee
         /\ build[b1].gasUsed = build[b2].gasUsed
         /\ DocOf(b1).authInfoBytes.amount = DocOf(b2).authInfoBytes.amount )
       => DocOf(b1).authInfoBytes = DocOf(b2).authInfoBytes

C19_Witness ==
  \E b1, b2 \in Builds :
    /\ build[b1].pc = "done" /\ build[b2].pc = "done"
    /\ build[b1].stdFee = "auto" /\ build[b2].stdFee = "auto"
    /\ build[b1].gasUsed = build[b2].gasUsed
    /\ build[b1].gasUsed = 80000
    /\ build[b1].timeoutHeight = 0 /\ build[b2].timeoutHeight = 7
    /\ DocOf(b2).bodyBytes.timeoutHeight = 7
    /\ DocOf(b1).bodyBytes # DocOf(b2).bodyBytes
    /\ DocOf(b1).authInfoBytes = DocOf(b2).authInfoBytes

\* The closed set of message variants the specification names.
SupportedVariants ==
  {"/cosmos.bank.v1beta1.MsgSend",
   "/cosmos.staking.v1beta1.MsgDelegate",
   "/cosmos.staking.v1beta1.MsgUndelegate",
   "/cosmos.staking.v1beta1.MsgBeginRedelegate",
   "/cosmos.distribution.v1beta1.MsgWithdrawDelegatorReward",
   "/cosmos.distribution.v1beta1.MsgWithdrawValidatorCommission",
   "/cosmos.gov.v1beta1.MsgVote"}

\* C20: buildSignDoc fails for a message whose typeUrl is outside the
\* closed set of supported variants, so no sign document it returns
\* contains such a message.
C20_OnlySupportedVariantsEncoded ==
  \A b \in Builds :
    /\ build[b].pc = "done" =>
         \A i \in DOMAIN DocOf(b).bodyBytes.messages :
           DocOf(b).bodyBytes.messages[i].typeUrl \in SupportedVariants
    /\ ( /\ build[b].pc \in {"done", "failed"}
         /\ build[b].typeUrl \notin SupportedVariants
         /\ build[b].error # "ConnectionError" )
       => build[b].pc = "failed" /\ build[b].error = "Unregistered type url"

\* C21: an error thrown by the kit while building, signing or broadcasting
\* comes back from the tool as status "error" with the error's message,
\* never as status "success".
C21_ErrorsReachCaller ==
  \A b \in Builds :
    /\ build[b].pc = "failed" =>
          /\ BuildToolReport(b).status = "error"
          /\ BuildToolReport(b).message = build[b].error
    /\ sign[b].pc = "failed" =>
          /\ SignToolReport(b).status = "error"
          /\ SignToolReport(b).message = sign[b].error
    /\ (bcast[b].pc = "returned" /\ bcast[b].outcome # "txHash") =>
          /\ BroadcastToolReport(b).status = "error"
          /\ BroadcastToolReport(b).message = bcast[b].outcome

C21_Witness ==
  \E b, c \in Builds :
    /\ b # c
    /\ build[b].pc = "failed"
    /\ BuildToolReport(b).status = "error"
    /\ bcast[c].pc = "returned"
    /\ bcast[c].outcome # "txHash"
    /\ BroadcastToolReport(c).status = "error"

\* A step in which call b of the pipeline fails: buildSignDoc or sign
\* rejects, or the broadcast returns without a transaction hash.
BuildFails(b) == build[b].pc # "failed" /\ build'[b].pc = "failed"
SignFails(b) == sign[b].pc # "failed" /\ sign'[b].pc = "failed"
BroadcastFails(b) ==
  /\ bcast[b].pc # "returned"
  /\ bcast'[b].pc = "returned"
  /\ bcast'[b].outcome # "txHash"

\* C22: a failing simulation, signing or broadcast changes nothing but the
\* failing call's own result; the kit keeps no state between calls, every
\* call reads sequence and account number from the chain, and an account's
\* sequence changes only by one, when the chain accepts a transaction of it.
C22_FailuresLeaveSharedStateAlone ==
  [][ /\ kit' = kit
      /\ \A a \in Addrs :
            chainSeq'[a] # chainSeq[a] =>
              /\ chainSeq'[a] = chainSeq[a] + 1
              /\ accepted'[a] = accepted[a] + 1
      /\ \A b \in Builds :
            /\ BuildFails(b) =>
                  /\ chainSeq' = chainSeq /\ accepted' = accepted
                  /\ sign' = sign /\ bcast' = bcast
                  /\ \A c \in Builds \ {b} : build'[c] = build[c]
            /\ SignFails(b) =>
                  /\ chainSeq' = chainSeq /\ accepted' = accepted
                  /\ build' = build /\ bcast' = bcast
                  /\ \A c \in Builds \ {b} : sign'[c] = sign[c]
            /\ BroadcastFails(b) =>
                  /\ bcast'[b].chainCode # 0 =>
                        chainSeq' = chainSeq /\ accepted' = accepted
                  /\ build' = build /\ sign' = sign
                  /\ \A c \in Builds \ {b} : bcast'[c] = bcast[c]
            /\ (build[b].pc = "getSequence" /\ build'[b].pc # "getSequence"
                  /\ build'[b].error # "ConnectionError") =>
                  /\ build'[b].sequence = chainSeq[build[b].sender]
                  /\ build'[b].accountNumber
                       = AccountNumberOf(build[b].sender)
    ]_vars

\* A call has failed in simulation, after an earlier call of the same
\* account was signed, broadcast and accepted, and the chain's sequence
\* is that one acceptance ahead.
C22_Witness ==
  \E b, c \in Builds :
    /\ bcast[b].outcome = "txHash"
    /\ build[c].pc = "failed"
    /\ build[c].simOutcome = "failed"
    /\ build[c].sequence = InitSequence(build[c].sender) + 1
    /\ chainSeq[build[c].sender] = InitSequence(build[c].sender) + 1

\* C23: a signature signDirect made for a payload verifies against no
\* payload that differs from that payload in one byte.
C23_TamperedPayloadFailsVerification ==
  (tamper.out # <<>> /\ tamper.out[1].pc = "signed") =>
    \A bytes \in Tamperings(tamper.payload) :
      ~VerifyPayload(tamper.out[1].signature[1], bytes)

RECURSIVE Compoundable(_)
Compoundable(rewards) ==
  IF rewards = <<>> THEN <<>>
  ELSE LET r == Head(rewards)
           whole == IF r.reward = <<>> THEN 0 ELSE r.reward[1].amount \div 10
       IN (IF whole * 99 >= 100 THEN <<r.validatorAddress>> ELSE <<>>)
          \o Compoundable(Tail(rewards))

\* C25: when its queries are answered, the auto-compound tool builds one
\* sign document: a withdraw-reward message per validator delegated to,
\* then a delegate message per reward of at least 1 whole token after the
\* 1% reserve; a smaller reward gives no delegate message, and with no
\* delegations the list is empty.
C25_AutoCompoundMessages ==
  (compound.pc = "returned" /\ compound.queries = "ok") =>
    /\ Len(compound.calls) = 1
    /\ LET messages == compound.calls[1]
           nClaims == Len(compound.delegations)
           stakes == Compoundable(compound.rewards)
       IN /\ Len(messages) = nClaims + Len(stakes)
          /\ \A i \in 1..nClaims :
                /\ messages[i].typeUrl
                     = "/cosmos.distribution.v1beta1.MsgWithdrawDelegatorReward"
                /\ messages[i].validatorAddress = compound.delegations[i]
          /\ \A j \in DOMAIN stakes :
                /\ messages[nClaims + j].typeUrl
                     = "/cosmos.staking.v1beta1.MsgDelegate"
                /\ messages[nClaims + j].validatorAddress = stakes[j]

\* The cache file holds an entry for token t that is younger than the
\* validity period.
FreshInFile(t) ==
  /\ hist.file[t] # <<>>
  /\ hist.now - hist.file[t][1].timestamp < cacheValidityPeriod

\* Invocation c sends a request in this step; the token it asks for.
Requests(c) == Len(hist'.calls[c].requests) > Len(hist.calls[c].requests)
Requested(c) ==
  hist'.calls[c].requests[Len(hist'.calls[c].requests)]

\* Token t is answered from the cache in this step: it gets its result,
\* and it is not the token whose request returns in this step.
AnsweredFromCache(c, t) ==
  /\ hist.calls[c].result[t] = <<>>
  /\ hist'.calls[c].result[t] # <<>>
  /\ ~(hist.calls[c].pc = "fetching"
        /\ hist.calls[c].tokenIds[hist.calls[c].i] = t)

C30_NoLostUpdate ==
  (\A c \in HistCalls : hist.calls[c].pc = "done") =>
    \A c \in HistCalls, t \in HistTokens :
      (/\ hist.calls[c].result[t] # <<>>
       /\ t \in {hist.calls[c].requests[k] :
                    k \in DOMAIN hist.calls[c].requests}) =>
        hist.file[t] # <<>>

\* C27: in a buildSignDoc call with the "auto" fee, the sequence the gas
\* simulation was run with is the sequence in the auth info of the sign
\* document the call returns, also when the chain accepts a transaction
\* of the sender while the call runs.
C27_SimulatedSequenceIsDocSequence ==
  \A b \in Builds :
    AutoDone(b) =>
      build[b].simSequence = DocOf(b).authInfoBytes.sequence

C28_SessionsOnlyWhileOpen ==
  /\ [](\A c \in sse.sessions : sse.conn[c].open)
  /\ [][\A c \in Conns :
          (sse'.conn[c].post # sse.conn[c].post
             /\ sse'.conn[c].post = "handed") => sse.conn[c].open
       ]_vars

============================================================================
